---- MODULE Spec2Model ----
(***************************************************************************)
(* Randomized edge contraction (Karger) as implemented in src/min_cut.py:  *)
(* the loader create_edges_list, count_vertices, merge_random_edge,        *)
(* min_cut and the module-level trial loop.                                *)
(*                                                                         *)
(* An edge is the tuple <<v1, v2, u_id>> of the source.  A row of the      *)
(* input file is the sequence of the integers on its line; the empty       *)
(* sequence is a blank line.                                               *)
(***************************************************************************)
EXTENDS Integers, Sequences, FiniteSets, TLC

\* Bound of the model: the number of vertex rows of an input plus the number
\* of its distinct edges is at most MaxSize.
MaxSize == 9

\* Bounds of the files read by the loader alone: a file holds at most
\* MaxTokens integers (a blank line counts as one), each in 1..MaxLabel.
MaxTokens == 5
MaxLabel == 2

\* float('inf'), the initial best size (line 115): larger than any edge count.
INF == 1000000

VARIABLES
    rows,                       \* the lines of graph.txt
    pc,                         \* position of the program
    original_edges_list,        \* line 111
    smaller_num_edges_min_cut,  \* line 115
    edges_of_min_cut,           \* line 116
    number_of_vertices,         \* line 120
    number_of_runs,             \* line 121
    k,                          \* loop variable of line 124
    edges_list,                 \* min_cut: the trial's private copy
    vertices_remaining,         \* min_cut: the counter
    printed,                    \* the last progress line printed (line 132)
    report,                     \* the final report (lines 134-136)
    group,                      \* history: original vertex -> label of its super-vertex
    merges,                     \* history: merge_random_edge calls of the current trial
    min_size_seen,              \* history: least cut size of the trials completed so far
    earliest_min_cut            \* history: what the earliest trial of that size returned

vars == <<rows, pc, original_edges_list, smaller_num_edges_min_cut,
          edges_of_min_cut, number_of_vertices, number_of_runs, k,
          edges_list, vertices_remaining, printed, report, group,
          merges, min_size_seen,
                   earliest_min_cut>>

Vertices == 1..MaxSize

SetMin(S) == CHOOSE x \in S : \A y \in S : x <= y

Min(a, b) == IF a <= b THEN a ELSE b

RECURSIVE SortedSeq(_)
SortedSeq(S) ==
    IF S = {} THEN <<>>
    ELSE <<SetMin(S)>> \o SortedSeq(S \ {SetMin(S)})

(***************************************************************************)
(* The input file (docstring of create_edges_list, lines 12-17): one row   *)
(* per vertex 1..nv, the vertex followed by its neighbours, then a blank   *)
(* line.  E is a set of pairs <<a, b>> with a <= b.                        *)
(***************************************************************************)
Neighbours(v, E) ==
    {e[2] : e \in {x \in E : x[1] = v}} \cup {e[1] : e \in {x \in E : x[2] = v}}

RowsOf(nv, E) ==
    [v \in 1..nv |-> <<v>> \o SortedSeq(Neighbours(v, E))] \o << <<>> >>

AllPairs(nv) == {p \in (1..nv) \X (1..nv) : p[1] <= p[2]}

HasSelfLoop(E) == \E p \in E : p[1] = p[2]

\* The subsets of S with at most m elements.
RECURSIVE SubsetsUpTo(_, _)
SubsetsUpTo(S, m) ==
    IF m = 0 THEN {{}}
    ELSE SubsetsUpTo(S, m - 1)
         \cup {T \cup {x} : T \in SubsetsUpTo(S, m - 1), x \in S}

\* Inputs: the graphs on 1..nv with nv + (number of edges) <= MaxSize; the
\* inputs that hold a self-loop entry (unsupported by the format) are kept
\* three smaller.
Inputs ==
    UNION { { RowsOf(nv, E) :
                E \in {T \in SubsetsUpTo(AllPairs(nv), MaxSize - nv) :
                          HasSelfLoop(T) => nv + Cardinality(T) <= MaxSize - 3} }
            : nv \in 0..MaxSize }

(***************************************************************************)
(* create_edges_list, lines 18-37.  acc = [edges, edges_added, unique_id]. *)
(***************************************************************************)
\* Mutant: the pair is looked up and recorded as written, not in ascending
\* order, so the other orientation is not recognised.
AddPairAsWritten(acc, v1, v2) ==
    LET pair == IF v1 < v2 THEN <<v1, v2>> ELSE <<v2, v1>>
    IN  IF <<v1, v2>> \in acc.edges_added
        THEN acc
        ELSE [edges       |-> Append(acc.edges, <<pair[1], pair[2], acc.unique_id>>),
              edges_added |-> acc.edges_added \cup {<<v1, v2>>},
              unique_id   |-> acc.unique_id + 1]

AddPair(acc, v1, v2) ==
    LET pair == IF v1 < v2 THEN <<v1, v2>> ELSE <<v2, v1>>
    IN  IF pair \in acc.edges_added
        THEN acc
        ELSE [edges       |-> Append(acc.edges, <<pair[1], pair[2], acc.unique_id>>),
              edges_added |-> acc.edges_added \cup {pair},
              unique_id   |-> acc.unique_id + 1]

RECURSIVE AddLine(_, _, _)
AddLine(acc, array_line, j) ==
    IF j > Len(array_line) THEN acc
    ELSE AddLine(AddPair(acc, array_line[1], array_line[j]), array_line, j + 1)

RECURSIVE ReadLines(_, _, _)
ReadLines(acc, f, i) ==
    IF i > Len(f) THEN acc
    ELSE IF f[i] = <<>> THEN ReadLines(acc, f, i + 1)
    ELSE ReadLines(AddLine(acc, f[i], 2), f, i + 1)

create_edges_list(f) ==
    ReadLines([edges |-> <<>>, edges_added |-> {}, unique_id |-> 0], f, 1).edges

(***************************************************************************)
(* count_vertices, lines 43-48.                                            *)
(***************************************************************************)
count_vertices(el) ==
    Cardinality({el[i][1] : i \in 1..Len(el)} \cup {el[i][2] : i \in 1..Len(el)})

(***************************************************************************)
(* merge_random_edge, lines 55-85; i is the index random.choice draws.     *)
(***************************************************************************)
\* Mutant: the larger endpoint of the sampled edge survives.
ChosenPairLargerFirst(el, i) ==
    IF el[i][1] < el[i][2] THEN <<el[i][2], el[i][1]>> ELSE <<el[i][1], el[i][2]>>

ChosenPair(el, i) ==
    IF el[i][1] < el[i][2] THEN <<el[i][1], el[i][2]>> ELSE <<el[i][2], el[i][1]>>

\* Mutant: the relabelled edge is not put back in ascending order.
ReconnectUnordered(v1, v3, u_id) == <<v1, v3, u_id>>

\* Mutant: the relabelled edge loses its identity.
ReconnectLosesId(v1, v3, u_id) ==
    IF v1 < v3 THEN <<v1, v3, 0>> ELSE <<v3, v1, 0>>

Reconnect(v1, v3, u_id) ==
    IF v1 < v3 THEN <<v1, v3, u_id>> ELSE <<v3, v1, u_id>>

\* Mutant: the elif branch of line 74 is missing.
RelabelEdgeFirstOnly(curr_edge, v1, v2) ==
    IF <<curr_edge[1], curr_edge[2]>> = <<v1, v2>> THEN <<v1, v2, -1>>
    ELSE IF curr_edge[1] = v2 THEN Reconnect(v1, curr_edge[2], curr_edge[3])
    ELSE curr_edge

RelabelEdge(curr_edge, v1, v2) ==
    IF <<curr_edge[1], curr_edge[2]>> = <<v1, v2>> THEN <<v1, v2, -1>>
    ELSE IF curr_edge[1] = v2 THEN Reconnect(v1, curr_edge[2], curr_edge[3])
    ELSE IF curr_edge[2] = v2 THEN Reconnect(v1, curr_edge[1], curr_edge[3])
    ELSE curr_edge

\* Mutant: the marked edges are not filtered out.
UnmarkedAll(edge) == TRUE

Unmarked(edge) == edge[3] # -1

\* Mutant: edges that become parallel are deduplicated, the first one kept.
merge_random_edge_dedup(el, i) ==
    LET v1 == ChosenPair(el, i)[1]
        v2 == ChosenPair(el, i)[2]
        merged == SelectSeq([j \in 1..Len(el) |-> RelabelEdge(el[j], v1, v2)],
                            Unmarked)
        firsts == {j \in 1..Len(merged) :
                     \A h \in 1..(j - 1) :
                        <<merged[h][1], merged[h][2]>> # <<merged[j][1], merged[j][2]>>}
    IN  [j \in 1..Cardinality(firsts) |->
            merged[CHOOSE h \in firsts :
                     Cardinality({g \in firsts : g <= h}) = j]]

merge_random_edge(el, i) ==
    LET v1 == ChosenPair(el, i)[1]
        v2 == ChosenPair(el, i)[2]
    IN  SelectSeq([j \in 1..Len(el) |-> RelabelEdge(el[j], v1, v2)], Unmarked)

(***************************************************************************)
(* min_cut, lines 102-105: the original edges whose identity survived.     *)
(***************************************************************************)
SurvivingIds(el) == {el[i][3] : i \in 1..Len(el)}

\* Mutant: the contracted edges are returned as they are.
FinalEdgesContracted(orig, el) == el

FinalEdges(orig, el) ==
    LET ids == SurvivingIds(el)
        Kept(edge) == edge[3] \in ids
    IN  SelectSeq(orig, Kept)

(***************************************************************************)
(* number_of_runs, line 121: int(n * (n-1) * math.log(n, 2)).              *)
(* Log2Micro[n] is floor(10^6 * log2(n)); the product is truncated.        *)
(***************************************************************************)
Log2Micro ==
    <<0, 1000000, 1584962, 2000000, 2321928, 2584962, 2807354, 3000000,
      3169925, 3321928>>

RunsOf(n) == (n * (n - 1) * Log2Micro[n]) \div 1000000

\* Mutant: min_cut works on the original list itself (no copy): while the
\* trial's list is still the original one, the writes of lines 63-80 land
\* in it.
OriginalAliased(orig, el, i) ==
    IF el = orig
    THEN [j \in 1..Len(el) |->
            RelabelEdge(el[j], ChosenPair(el, i)[1], ChosenPair(el, i)[2])]
    ELSE orig

\* line 97: min_cut deep-copies the original list, so the in-place writes of
\* merge_random_edge (lines 63-80) land in the copy and the original stays.
OriginalAfterMerge(orig, el, i) == orig

\* Mutant: the loop contracts down to one vertex.
MoreToContractOne(vr) == vr > 1

\* line 98: the condition of min_cut's while loop
MoreToContract(vr) == vr > 2

\* Mutant: a trial that ties the best cut replaces it.
ImprovesOrTies(num_edges_of_curr_min_cut, best) == num_edges_of_curr_min_cut <= best

\* Mutant: every trial replaces the best cut.
ImprovesAlways(num_edges_of_curr_min_cut, best) == TRUE

\* line 128: the comparison that replaces the best cut
Improves(num_edges_of_curr_min_cut, best) == num_edges_of_curr_min_cut < best

\* line 124: range(1, number_of_vertices + 1), the number of iterations
Iterations(n) == n

(***************************************************************************)
(* The program.                                                            *)
(***************************************************************************)
Init ==
    /\ rows \in Inputs
    /\ pc = "load"
    /\ original_edges_list = <<>>
    /\ smaller_num_edges_min_cut = INF
    /\ edges_of_min_cut = <<>>
    /\ number_of_vertices = 0
    /\ number_of_runs = 0
    /\ k = 0
    /\ edges_list = <<>>
    /\ vertices_remaining = 0
    /\ printed = <<>>
    /\ report = <<>>
    /\ group = [v \in Vertices |-> v]
    /\ merges = 0
    /\ min_size_seen = INF
    /\ earliest_min_cut = <<>>

\* lines 110-116
Load ==
    /\ pc = "load"
    /\ original_edges_list' = create_edges_list(rows)
    /\ smaller_num_edges_min_cut' = INF
    /\ edges_of_min_cut' = <<>>
    /\ pc' = "count"
    /\ UNCHANGED <<rows, number_of_vertices, number_of_runs, k, edges_list,
                   vertices_remaining, printed, report,
                   group, merges, min_size_seen,
                   earliest_min_cut>>

\* lines 120-121, n >= 1
ComputeRuns ==
    /\ pc = "count"
    /\ count_vertices(original_edges_list) >= 1
    /\ number_of_vertices' = count_vertices(original_edges_list)
    /\ number_of_runs' = RunsOf(count_vertices(original_edges_list))
    /\ pc' = "loop"
    /\ UNCHANGED <<rows, original_edges_list, smaller_num_edges_min_cut,
                   edges_of_min_cut, k, edges_list, vertices_remaining,
                   printed, report, group, merges,
                   min_size_seen,
                   earliest_min_cut>>

\* line 121 with n = 0: math.log(0, 2) raises ValueError
ComputeRunsFails ==
    /\ pc = "count"
    /\ count_vertices(original_edges_list) = 0
    /\ number_of_vertices' = 0
    /\ pc' = "ValueError"
    /\ UNCHANGED <<rows, original_edges_list, smaller_num_edges_min_cut,
                   edges_of_min_cut, number_of_runs, k, edges_list,
                   vertices_remaining, printed, report,
                   group, merges, min_size_seen,
                   earliest_min_cut>>

\* lines 124-126 and 97: the next iteration of the for loop calls min_cut
StartTrial ==
    /\ pc = "loop"
    /\ k < Iterations(number_of_vertices)
    /\ k' = k + 1
    /\ edges_list' = original_edges_list
    /\ vertices_remaining' = number_of_vertices
    /\ group' = [v \in Vertices |-> v]
    /\ merges' = 0
    /\ pc' = "min_cut"
    /\ UNCHANGED <<rows, original_edges_list, smaller_num_edges_min_cut,
                   edges_of_min_cut, number_of_vertices, number_of_runs,
                   printed, report, min_size_seen,
                   earliest_min_cut>>

\* lines 98-100: one iteration of the while loop
Contract ==
    /\ pc = "min_cut"
    /\ MoreToContract(vertices_remaining)
    /\ \E i \in 1..Len(edges_list) :
         /\ edges_list' = merge_random_edge(edges_list, i)
         /\ original_edges_list' =
                OriginalAfterMerge(original_edges_list, edges_list, i)
         /\ group' = [v \in Vertices |->
                        IF group[v] = ChosenPair(edges_list, i)[2]
                        THEN ChosenPair(edges_list, i)[1] ELSE group[v]]
    /\ vertices_remaining' = vertices_remaining - 1
    /\ merges' = merges + 1
    /\ UNCHANGED <<rows, pc, smaller_num_edges_min_cut,
                   edges_of_min_cut, number_of_vertices, number_of_runs, k,
                   printed, report, min_size_seen,
                   earliest_min_cut>>

\* line 56 on an empty list: random.choice raises IndexError
ContractFails ==
    /\ pc = "min_cut"
    /\ MoreToContract(vertices_remaining)
    /\ Len(edges_list) = 0
    /\ merges' = merges + 1
    /\ pc' = "IndexError"
    /\ UNCHANGED <<rows, original_edges_list, smaller_num_edges_min_cut,
                   edges_of_min_cut, number_of_vertices, number_of_runs, k,
                   edges_list, vertices_remaining, printed, report, group, min_size_seen,
                   earliest_min_cut>>

\* lines 102-105 (min_cut returns) and 126-132 (the rest of the loop body)
FinishTrial ==
    /\ pc = "min_cut"
    /\ ~MoreToContract(vertices_remaining)
    /\ LET edges_of_curr_min_cut == FinalEdges(original_edges_list, edges_list)
           num_edges_of_curr_min_cut == Len(edges_of_curr_min_cut)
       IN  /\ IF Improves(num_edges_of_curr_min_cut, smaller_num_edges_min_cut)
              THEN /\ smaller_num_edges_min_cut' = num_edges_of_curr_min_cut
                   /\ edges_of_min_cut' = edges_of_curr_min_cut
              ELSE UNCHANGED <<smaller_num_edges_min_cut, edges_of_min_cut>>
           /\ min_size_seen' = Min(min_size_seen, num_edges_of_curr_min_cut)
           /\ earliest_min_cut' = IF num_edges_of_curr_min_cut >= min_size_seen
                                  THEN earliest_min_cut
                                  ELSE edges_of_curr_min_cut
    /\ printed' = <<k, number_of_runs, smaller_num_edges_min_cut'>>
    /\ pc' = "loop"
    /\ UNCHANGED <<rows, original_edges_list, number_of_vertices,
                   number_of_runs, k, edges_list, vertices_remaining, report,
                   group, merges>>

\* lines 133-136, after the for loop is exhausted
Report ==
    /\ pc = "loop"
    /\ k >= Iterations(number_of_vertices)
    /\ report' = <<number_of_runs, smaller_num_edges_min_cut,
                   [j \in 1..Len(edges_of_min_cut) |->
                       <<edges_of_min_cut[j][1], edges_of_min_cut[j][2]>>]>>
    /\ pc' = "done"
    /\ UNCHANGED <<rows, original_edges_list, smaller_num_edges_min_cut,
                   edges_of_min_cut, number_of_vertices, number_of_runs, k,
                   edges_list, vertices_remaining, printed, group, merges,
                   min_size_seen,
                   earliest_min_cut>>

Next ==
    \/ Load
    \/ ComputeRuns
    \/ ComputeRunsFails
    \/ StartTrial
    \/ Contract
    \/ ContractFails
    \/ FinishTrial
    \/ Report

Spec == Init /\ [][Next]_vars

(***************************************************************************)
(* The loader alone, on arbitrary files: any sequence of rows, a row being *)
(* a blank line or a non-empty sequence of labels (lines 22-29).           *)
(***************************************************************************)
RowsOfCost(c) ==
    [1..c -> 1..MaxLabel] \cup (IF c = 1 THEN {<<>>} ELSE {})

\* The files of cost at most t: a first row of cost c, then a file of cost
\* at most t - c.
RECURSIVE Files(_)
Files(t) ==
    {<<>>} \cup UNION { { <<p[1]>> \o p[2] : p \in RowsOfCost(c) \X Files(t - c) }
                        : c \in 1..t }

InitLoader ==
    /\ rows \in Files(MaxTokens)
    /\ pc = "load"
    /\ original_edges_list = <<>>
    /\ smaller_num_edges_min_cut = INF
    /\ edges_of_min_cut = <<>>
    /\ number_of_vertices = 0
    /\ number_of_runs = 0
    /\ k = 0
    /\ edges_list = <<>>
    /\ vertices_remaining = 0
    /\ printed = <<>>
    /\ report = <<>>
    /\ group = [v \in Vertices |-> v]
    /\ merges = 0
    /\ min_size_seen = INF
    /\ earliest_min_cut = <<>>

SpecLoader == InitLoader /\ [][Load]_vars

(***************************************************************************)
(* Vocabulary of the properties.                                           *)
(***************************************************************************)
\* The vertex labels that appear in the input rows.
InputVertices ==
    UNION {{rows[i][j] : j \in 1..Len(rows[i])} : i \in 1..Len(rows)}

Loaded == pc \notin {"load"}

Counted == pc \notin {"load", "count"}

\* The loaded store is a simple graph: no edge joins a vertex to itself.
SimpleInput ==
    \A i \in 1..Len(original_edges_list) :
        original_edges_list[i][1] < original_edges_list[i][2]

RECURSIVE Closure(_, _)
Closure(S, el) ==
    LET T == S \cup {el[i][2] : i \in {j \in 1..Len(el) : el[j][1] \in S}}
               \cup {el[i][1] : i \in {j \in 1..Len(el) : el[j][2] \in S}}
    IN  IF T = S THEN S ELSE Closure(T, el)

Connected(V, el) == V = {} \/ Closure({SetMin(V)}, el) = V

ConnectedInput == Loaded /\ Connected(InputVertices, original_edges_list)

DisconnectedInput == Loaded /\ ~Connected(InputVertices, original_edges_list)

Degree(v, el) == Cardinality({i \in 1..Len(el) : el[i][1] = v \/ el[i][2] = v})

CrossCount(S, el) ==
    Cardinality({i \in 1..Len(el) : (el[i][1] \in S) # (el[i][2] \in S)})

\* The size of a minimum cut of the graph (V, el), V with two vertices or more.
TrueMinCut(V, el) ==
    SetMin({CrossCount(S, el) : S \in (SUBSET V) \ {{}, V}})

\* The while loop of min_cut has ended: min_cut is about to return.
TrialEnded == pc = "min_cut" /\ ~MoreToContract(vertices_remaining)

\* What min_cut returns from the current store.
Returned == FinalEdges(original_edges_list, edges_list)

Labels(el) == {el[i][1] : i \in 1..Len(el)} \cup {el[i][2] : i \in 1..Len(el)}

Ids(el) == [i \in 1..Len(el) |-> el[i][3]]

\* The original edges whose endpoints lie in different groups.
CrossesGroups(edge) == group[edge[1]] # group[edge[2]]

RemovedFrom(orig, cut) ==
    LET cutIds == {cut[i][3] : i \in 1..Len(cut)}
        Stays(edge) == edge[3] \notin cutIds
    IN  SelectSeq(orig, Stays)

(***************************************************************************)
(* C1.  For a simple input with n >= 2 vertices the driver runs the full trial   *)
(* budget: when the final result is reported, the number of trials run     *)
(* (the value of k) equals number_of_runs, and the index printed after the *)
(* last trial equals the printed total.                                    *)
(***************************************************************************)
C1_FullBudget ==
    (pc = "done" /\ SimpleInput /\ number_of_vertices >= 2)
        => /\ k = number_of_runs
           /\ printed[1] = printed[2]

(***************************************************************************)
(* C2.  For a connected simple input with n >= 2 vertices, at the end of   *)
(* every trial the store holds exactly two vertex labels and every edge    *)
(* joins them; the edges min_cut returns are exactly the original edges    *)
(* whose endpoints lie in different ones of the two groups of merged       *)
(* vertices; removing them disconnects the original graph, and their       *)
(* number is at least the size of a minimum cut.                           *)
(***************************************************************************)
C2_CandidateCut ==
    (TrialEnded /\ SimpleInput /\ ConnectedInput /\ number_of_vertices >= 2)
        => /\ Cardinality(Labels(edges_list)) = 2
           /\ \A i \in 1..Len(edges_list) : edges_list[i][1] # edges_list[i][2]
           /\ Cardinality({group[v] : v \in InputVertices}) = 2
           /\ Labels(edges_list) = {group[v] : v \in InputVertices}
           /\ Returned = SelectSeq(original_edges_list, CrossesGroups)
           /\ ~Connected(InputVertices, RemovedFrom(original_edges_list, Returned))
           /\ Len(Returned) >= TrueMinCut(InputVertices, original_edges_list)

C2_Witness ==
    /\ TrialEnded /\ SimpleInput /\ ConnectedInput
    /\ number_of_vertices >= 3
    /\ merges = number_of_vertices - 2
    /\ Len(edges_list) = 2
    /\ Len(Returned) = 2

(***************************************************************************)
(* C3.  A valid store is non-empty, has endpoint_a < endpoint_b in every   *)
(* edge and pairwise distinct identities.  As claimed: from a valid store, *)
(* for every edge that can be sampled, one merge_random_edge call lowers   *)
(* count_vertices by exactly 1 and the edge count by at least 1, and       *)
(* vertices_remaining equals count_vertices of the current store           *)
(* throughout a trial.                                                     *)
(***************************************************************************)
ValidStore(el) ==
    /\ Len(el) >= 1
    /\ \A i \in 1..Len(el) : el[i][1] < el[i][2]
    /\ \A i, j \in 1..Len(el) : el[i][3] = el[j][3] => i = j

KeepsAnEdge(el, i) ==
    \E j \in 1..Len(el) :
        /\ <<el[j][1], el[j][2]>> # ChosenPair(el, i)
        /\ {el[j][1], el[j][2]} \cap {ChosenPair(el, i)[1], ChosenPair(el, i)[2]} # {}

C4_TranslatedByIdentity ==
    TrialEnded
        => /\ \A i \in 1..Len(edges_list) :
                \E j \in 1..Len(original_edges_list) :
                    original_edges_list[j][3] = edges_list[i][3]
           /\ Len(Returned) = Len(edges_list)
           /\ \A i \in 1..Len(edges_list) :
                Cardinality({j \in 1..Len(Returned) :
                                Returned[j][3] = edges_list[i][3]}) = 1
           /\ \A j \in 1..Len(Returned) :
                /\ \E i \in 1..Len(original_edges_list) :
                      original_edges_list[i] = Returned[j]
                /\ \E i \in 1..Len(edges_list) :
                      edges_list[i][3] = Returned[j][3]

\* A trial with contractions has ended with surviving edges whose endpoints
\* are no longer the original ones.
C4_Witness ==
    /\ TrialEnded /\ SimpleInput
    /\ merges >= 2
    /\ Len(edges_list) >= 1
    /\ \E i \in 1..Len(edges_list) :
          \A j \in 1..Len(original_edges_list) :
              original_edges_list[j] # edges_list[i]

(***************************************************************************)
(* C5.  In every store reachable by contractions the identities are        *)
(* pairwise distinct, and one merge_random_edge call with sampled          *)
(* endpoints (a, b) removes exactly the edges whose endpoint pair was      *)
(* (a, b): the identities of the result are those of the other edges, in   *)
(* the same order, also when edges become parallel.                        *)
(***************************************************************************)
DistinctIds(el) == \A i, j \in 1..Len(el) : el[i][3] = el[j][3] => i = j

HasParallel(el) ==
    \E i, j \in 1..Len(el) :
        i # j /\ <<el[i][1], el[i][2]>> = <<el[j][1], el[j][2]>>

OtherPairs(el, i) ==
    LET NotSampled(edge) == <<edge[1], edge[2]>> # ChosenPair(el, i)
    IN  SelectSeq(el, NotSampled)

C5_IdentityKept ==
    (pc = "min_cut")
        => /\ DistinctIds(edges_list)
           /\ \A i \in 1..Len(edges_list) :
                Ids(merge_random_edge(edges_list, i)) = Ids(OtherPairs(edges_list, i))

\* A contraction has produced parallel edges, and a further sampled edge
\* removes more than one edge.
C5_Witness ==
    /\ pc = "min_cut" /\ SimpleInput
    /\ merges >= 1
    /\ MoreToContract(vertices_remaining)
    /\ HasParallel(edges_list)
    /\ Len(edges_list) >= 3
    /\ \E i \in 1..Len(edges_list) :
          Len(merge_random_edge(edges_list, i)) = Len(edges_list) - 2

(***************************************************************************)
(* C6.  Across the trial loop the best cut size never increases: every     *)
(* step leaves smaller_num_edges_min_cut at or below its previous value,   *)
(* and after every step it equals the least cut size of the trials run so  *)
(* far (infinity before the first).                                        *)
(***************************************************************************)
C6_BestNonIncreasing ==
    [][ /\ smaller_num_edges_min_cut' <= smaller_num_edges_min_cut
        /\ smaller_num_edges_min_cut' = min_size_seen' ]_vars

\* A later trial has ended with a cut larger than the best one, which stayed.
C6_Witness ==
    /\ pc = "loop"
    /\ k >= 2
    /\ Len(Returned) > smaller_num_edges_min_cut
    /\ smaller_num_edges_min_cut = min_size_seen

(***************************************************************************)
(* C7.  When the loaded store has fewer than 2 vertices (n = 0 or n = 1),  *)
(* computing the trial budget fails and the program stops before any       *)
(* trial: past line 121 the program is in its failed state, it never       *)
(* starts a trial and never reports a cut.                                 *)
(***************************************************************************)
C7_FailsBelowTwoVertices ==
    (Counted /\ count_vertices(original_edges_list) < 2)
        => /\ pc = "ValueError"
           /\ k = 0
           /\ report = <<>>

(***************************************************************************)
(* C8.  For a two-vertex input (n = 2, one edge) merge_random_edge is      *)
(* never called, every trial leaves best size 1 with that edge, and the    *)
(* program reports size 1 and the endpoints of that single edge.           *)
(***************************************************************************)
TwoVertexInput ==
    /\ Counted
    /\ number_of_vertices = 2
    /\ Len(original_edges_list) = 1

C8_TwoVertices ==
    TwoVertexInput
        => /\ merges = 0
           /\ pc \notin {"ValueError", "IndexError"}
           /\ (pc = "loop" /\ k >= 1)
                => /\ smaller_num_edges_min_cut = 1
                   /\ edges_of_min_cut = original_edges_list
           /\ pc = "done"
                => report = <<number_of_runs, 1,
                              << <<original_edges_list[1][1],
                                   original_edges_list[1][2]>> >> >>

C8_Witness ==
    /\ TwoVertexInput
    /\ pc = "done"
    /\ k = 2
    /\ report[2] = 1

(***************************************************************************)
(* C9.  For a cycle graph on n >= 3 nodes every trial returns 2 edges and  *)
(* the best size reported is 2; for a path graph on n >= 2 nodes every     *)
(* trial returns 1 edge and the best size reported is 1, whatever edges    *)
(* are sampled.                                                            *)
(***************************************************************************)
CycleInput ==
    /\ Counted /\ SimpleInput /\ ConnectedInput
    /\ Cardinality(InputVertices) >= 3
    /\ \A v \in InputVertices : Degree(v, original_edges_list) = 2

PathInput ==
    /\ Counted /\ SimpleInput /\ ConnectedInput
    /\ Cardinality(InputVertices) >= 2
    /\ Len(original_edges_list) = Cardinality(InputVertices) - 1
    /\ \A v \in InputVertices : Degree(v, original_edges_list) <= 2

YieldsSize(c) ==
    /\ pc \notin {"ValueError", "IndexError"}
    /\ TrialEnded => Len(Returned) = c
    /\ (pc = "loop" /\ k >= 1) => smaller_num_edges_min_cut = c
    /\ pc = "done" => (report[2] = c /\ Len(report[3]) = c)

C9_Fixtures ==
    /\ CycleInput => YieldsSize(2)
    /\ PathInput => YieldsSize(1)

C9_Witness ==
    /\ CycleInput
    /\ number_of_vertices = 4
    /\ pc = "done"
    /\ report[2] = 2

(***************************************************************************)
(* C10.  For a disconnected input whose store holds 2 vertices or more the *)
(* program completes all its trials and reports best cut size 0 with an    *)
(* empty list of cut edges.                                                *)
(***************************************************************************)
C10_DisconnectedReportsZero ==
    (DisconnectedInput /\ SimpleInput /\ Counted /\ number_of_vertices >= 2)
        => /\ pc \notin {"ValueError", "IndexError"}
           /\ pc = "done" => (report[2] = 0 /\ report[3] = <<>>)

CeilRunsOf(n) == (n * (n - 1) * Log2Micro[n] + 999999) \div 1000000

C12_BudgetIsCeiling ==
    (Counted /\ SimpleInput /\ number_of_vertices >= 2)
        => number_of_runs = CeilRunsOf(number_of_vertices)

(***************************************************************************)
(* C14.  For a simple input, the vertex count the program uses,            *)
(* number_of_vertices, equals                                              *)
(* the number of distinct vertex labels seen in the input rows, a vertex   *)
(* whose row lists no neighbours included.                                 *)
(***************************************************************************)
C14_CountsEveryLabel ==
    (Counted /\ SimpleInput /\ pc # "ValueError")
        => number_of_vertices = Cardinality(InputVertices)

(***************************************************************************)
(* C15.  In every trial on a loaded simple store with n >= 2 vertices,     *)
(* connected or not, merge_random_edge is never called on an empty list:   *)
(* whenever the loop condition of min_cut holds, the store has an edge.    *)
(***************************************************************************)
C15_NeverChoosesFromEmpty ==
    (pc = "min_cut" /\ SimpleInput /\ number_of_vertices >= 2
        /\ MoreToContract(vertices_remaining))
        => Len(edges_list) >= 1

(***************************************************************************)
(* C16.  For an input without self-loop rows, every edge of every store    *)
(* reachable by loading and contractions has endpoint_a < endpoint_b, and  *)
(* for every edge that can be sampled the test on the ordered pair         *)
(* (v1, v2) catches every edge joining the two merged vertices: no edge    *)
(* with equal endpoints is left after the call.                            *)
(***************************************************************************)
NoSelfLoopRows ==
    \A r \in 1..Len(rows) : \A j \in 2..Len(rows[r]) : rows[r][j] # rows[r][1]

Ascending(el) == \A i \in 1..Len(el) : el[i][1] < el[i][2]

Joins(edge, a, b) == {edge[1], edge[2]} = {a, b}

C16_EndpointsAscending ==
    NoSelfLoopRows
        => /\ Ascending(original_edges_list)
           /\ Ascending(edges_list)
           /\ pc = "min_cut" =>
                \A i \in 1..Len(edges_list) :
                    /\ Ascending(merge_random_edge(edges_list, i))
                    /\ \A j \in 1..Len(edges_list) :
                          Joins(edges_list[j], ChosenPair(edges_list, i)[1],
                                               ChosenPair(edges_list, i)[2])
                            => edges_list[j][3] \notin
                                 SurvivingIds(merge_random_edge(edges_list, i))

\* A contraction has relabelled an edge whose other endpoint is below the
\* surviving label, so the pair had to be swapped.
C16_Witness ==
    /\ NoSelfLoopRows
    /\ pc = "min_cut"
    /\ merges >= 1
    /\ \E i \in 1..Len(edges_list) :
          \E j \in 1..Len(original_edges_list) :
              /\ original_edges_list[j][3] = edges_list[i][3]
              /\ original_edges_list[j][1] = edges_list[i][1]
              /\ original_edges_list[j][2] > edges_list[i][2]
              /\ group[original_edges_list[j][2]] = edges_list[i][2]

(***************************************************************************)
(* C17.  The best cut edges are replaced only on strict improvement: a     *)
(* trial whose cut size equals the best size leaves edges_of_min_cut       *)
(* unchanged, so edges_of_min_cut is what the earliest trial of the least  *)
(* size returned, and these are the edges finally reported.                *)
(***************************************************************************)
Pairs(el) == [j \in 1..Len(el) |-> <<el[j][1], el[j][2]>>]

C17_TiesKeepEarliest ==
    /\ edges_of_min_cut = earliest_min_cut
    /\ pc = "done" => report[3] = Pairs(earliest_min_cut)

\* A later trial has tied the best size with other edges, and the best
\* edges stayed.
C17_Witness ==
    /\ pc = "loop" /\ SimpleInput
    /\ k >= 2
    /\ Len(Returned) = smaller_num_edges_min_cut
    /\ Returned # edges_of_min_cut
    /\ edges_of_min_cut = earliest_min_cut

(***************************************************************************)
(* C18.  For every simple input with n >= 2 vertices and every resolution  *)
(* of the random choices, each trial performs exactly n - 2 contractions   *)
(* and then returns, and the program stops only after its last trial,      *)
(* having reported a final best size and edge list.                        *)
(***************************************************************************)
Stopped == pc \in {"done", "ValueError", "IndexError"}

C18_TrialsCompleteAndReport ==
    (Counted /\ SimpleInput /\ number_of_vertices >= 2)
        => /\ (pc \in {"loop", "done"} /\ k >= 1)
                => merges = number_of_vertices - 2
           /\ pc = "min_cut" => merges <= number_of_vertices - 2
           /\ Stopped
                => /\ pc = "done"
                   /\ k = Iterations(number_of_vertices)
                   /\ Len(report) = 3
                   /\ report[2] = smaller_num_edges_min_cut

(***************************************************************************)
(* C19.  After any sequence of contractions of a trial on a simple input,  *)
(* the label of every super-vertex is the least original label of the      *)
(* vertices merged into it, and the endpoints of every surviving edge are  *)
(* the labels of the super-vertices that hold the original endpoints of    *)
(* the edge with the same identity.                                        *)
(***************************************************************************)
Members(l) == {v \in Vertices : group[v] = l}

C19_EndpointsAreRepresentatives ==
    (pc = "min_cut" /\ SimpleInput)
        => /\ \A v \in Vertices : group[v] = SetMin(Members(group[v]))
           /\ \A i \in 1..Len(edges_list) :
                \E j \in 1..Len(original_edges_list) :
                    /\ original_edges_list[j][3] = edges_list[i][3]
                    /\ {edges_list[i][1], edges_list[i][2]}
                         = {group[original_edges_list[j][1]],
                            group[original_edges_list[j][2]]}
                    /\ edges_list[i][1] = SetMin(Members(edges_list[i][1]))
                    /\ edges_list[i][2] = SetMin(Members(edges_list[i][2]))

\* Two contractions have merged three vertices or more into one whose edge
\* survives with both endpoints relabelled or moved.
C19_Witness ==
    /\ pc = "min_cut" /\ SimpleInput
    /\ merges >= 2
    /\ \E i \in 1..Len(edges_list) :
          /\ Cardinality(Members(edges_list[i][1])) >= 3
          /\ \A j \in 1..Len(original_edges_list) :
                original_edges_list[j][3] = edges_list[i][3]
                    => original_edges_list[j][1] # edges_list[i][1]

(***************************************************************************)
(* C20.  After every trial the best-result holder is consistent: the       *)
(* number of edges in edges_of_min_cut equals smaller_num_edges_min_cut,   *)
(* and every edge in edges_of_min_cut is an edge of the original store     *)
(* with its original endpoints and identity.                               *)
(***************************************************************************)
TrialCompleted == k >= 2 \/ (k = 1 /\ pc \in {"loop", "done"})

C20_BestHolderConsistent ==
    TrialCompleted
        => /\ Len(edges_of_min_cut) = smaller_num_edges_min_cut
           /\ \A j \in 1..Len(edges_of_min_cut) :
                \E i \in 1..Len(original_edges_list) :
                    original_edges_list[i] = edges_of_min_cut[j]

\* Trials with contractions have completed and the best cut is not empty.
C20_Witness ==
    /\ TrialCompleted
    /\ pc = "loop"
    /\ k >= 2
    /\ merges >= 2
    /\ SimpleInput
    /\ Len(edges_of_min_cut) >= 2

(***************************************************************************)
(* C13.  For every sequence of input rows, create_edges_list returns a     *)
(* store in which no two edges share the same unordered endpoint pair (a   *)
(* pair seen again, in either orientation, is skipped), and the            *)
(* identities are 0, 1, ..., m-1 in list order, given in the order in      *)
(* which the pairs first appear in the file.                               *)
(***************************************************************************)
\* The unordered pairs the file names, in reading order.
RECURSIVE Mentions(_, _, _)
Mentions(f, r, j) ==
    IF r > Len(f) THEN <<>>
    ELSE IF j > Len(f[r]) THEN Mentions(f, r + 1, 2)
    ELSE << {f[r][1], f[r][j]} >> \o Mentions(f, r, j + 1)

FirstAppearances(m) ==
    LET firsts == {p \in 1..Len(m) : \A q \in 1..(p - 1) : m[q] # m[p]}
    IN  [n \in 1..Cardinality(firsts) |->
            m[CHOOSE p \in firsts : Cardinality({q \in firsts : q <= p}) = n]]

C13_LoaderDeduplicates ==
    Loaded
        => /\ \A i, j \in 1..Len(original_edges_list) :
                {original_edges_list[i][1], original_edges_list[i][2]}
                    = {original_edges_list[j][1], original_edges_list[j][2]}
                  => i = j
           /\ \A i \in 1..Len(original_edges_list) :
                /\ original_edges_list[i][3] = i - 1
                /\ original_edges_list[i][1] <= original_edges_list[i][2]
           /\ [i \in 1..Len(original_edges_list) |->
                  {original_edges_list[i][1], original_edges_list[i][2]}]
                = FirstAppearances(Mentions(rows, 1, 2))

\* A file of two rows or more that names a pair again the other way round,
\* after a different pair, has been loaded.
C13_Witness ==
    /\ Loaded
    /\ Len(original_edges_list) = 2
    /\ Len(Mentions(rows, 1, 2)) = 3
    /\ \E r1, r2 \in 1..Len(rows) :
          /\ r1 < r2
          /\ Len(rows[r1]) >= 2 /\ Len(rows[r2]) >= 2
          /\ rows[r1][1] # rows[r2][1]
          /\ rows[r2][1] = rows[r1][Len(rows[r1])]
          /\ rows[r2][2] = rows[r1][1]

====
